---- MODULE Spec2Model ----
(***************************************************************************)
(* Model of the Discord auto-role bot (src/src/index.js).                  *)
(*                                                                         *)
(* The process reads its configuration from the environment, refuses to    *)
(* start without a token, registers one handler for GuildMemberAdd and     *)
(* logs in.  Each join notification starts one invocation of the async     *)
(* handler; an invocation runs synchronously up to its first await (the    *)
(* role fetch on a cache miss, otherwise the add-role call) and is resumed *)
(* when the awaited call settles.  Several invocations may be suspended at *)
(* the same time.                                                          *)
(***************************************************************************)
EXTENDS Integers, Sequences, FiniteSets, TLC

\* ------------------------------------------------------------------ bounds
\* Number of join notifications delivered in one behaviour.
MaxEvents == 2

\* ------------------------------------------------------------ the universe
Unset == "<unset>"          \* an environment variable that is not defined
Undefined == "<undefined>"  \* the JavaScript value undefined / null

DefaultGuildId == "1443680950952394784"
DefaultRoleId == "1444126866746245253"
OtherGuildId == "g2"
OtherRoleId == "r2"

GuildIds == {DefaultGuildId, OtherGuildId}
RoleIds == {DefaultRoleId, OtherRoleId}
Members == {"alice", "bob", "carol", "dave", "erin"}

\* Every role belongs to one guild, every member object to one guild.
RoleGuild(r) == IF r = DefaultRoleId THEN DefaultGuildId ELSE OtherGuildId
MemberGuild(m) == IF m \in {"dave", "erin"} THEN OtherGuildId ELSE DefaultGuildId
GuildRoles(g) == {r \in RoleIds : RoleGuild(r) = g}
GuildName(g) == IF g = DefaultGuildId THEN "Vortex" ELSE "Other"
RoleName(r) == IF r = DefaultRoleId THEN "Member" ELSE "Guest"
UserTag(m) == m

\* The role sets at startup: in each guild there are members without roles
\* and one that holds the guild's role.
InitialRoles ==
  [m \in Members |-> IF m \in {"carol", "erin"} THEN GuildRoles(MemberGuild(m)) ELSE {}]

\* Role objects; NoRole stands for undefined / null.
NoRole == [id |-> Undefined, name |-> Undefined]
Role(r) == [id |-> r, name |-> RoleName(r)]

\* The environments the process is started in: token unset, empty or set;
\* the two ids unset, empty or given.
Envs ==
  { [DISCORD_TOKEN |-> Unset, TARGET_GUILD_ID |-> Unset, AUTO_ROLE_ID |-> Unset],
    [DISCORD_TOKEN |-> "", TARGET_GUILD_ID |-> OtherGuildId, AUTO_ROLE_ID |-> OtherRoleId],
    [DISCORD_TOKEN |-> "tok", TARGET_GUILD_ID |-> Unset, AUTO_ROLE_ID |-> ""],
    [DISCORD_TOKEN |-> "tok", TARGET_GUILD_ID |-> OtherGuildId, AUTO_ROLE_ID |-> OtherRoleId],
    [DISCORD_TOKEN |-> "tok", TARGET_GUILD_ID |-> "", AUTO_ROLE_ID |-> OtherRoleId] }

\* Member values a join notification can carry: a member of a guild with the
\* role set it has at that moment, a member without guild reference, or
\* nothing at all.
MemberValue(m, roles) == [id |-> m, guild |-> MemberGuild(m), roles |-> roles]
NoGuildMember(m) == [id |-> m, guild |-> Undefined, roles |-> {}]
NullMember == [id |-> Undefined, guild |-> Undefined, roles |-> {}]

\* Settled promises: fulfilled with a value or rejected with an error.
Fulfilled(v) == [ok |-> TRUE, value |-> v, error |-> ""]
Rejected(e) == [ok |-> FALSE, value |-> NoRole, error |-> e]
Pending == [ok |-> FALSE, value |-> NoRole, error |-> "<pending>"]

\* What guild.roles.fetch(id) can settle to: the role when it exists in that
\* guild, nothing, or a rejection.
FetchResults(g, r) ==
  {Fulfilled(NoRole), Rejected("FetchError")}
    \cup (IF RoleGuild(r) = g THEN {Fulfilled(Role(r))} ELSE {})

\* What member.roles.add(role, reason) can settle to.
AddErrors == {"MissingPermissions", "UnknownRole", "NetworkError"}
AddResults == {Fulfilled(NoRole)} \cup {Rejected(e) : e \in AddErrors}

VARIABLES
  env,              \* process.env
  TOKEN,            \* line 4
  TARGET_GUILD_ID,  \* line 5
  AUTO_ROLE_ID,     \* line 6
  phase,            \* "start", "exited", "login", "ready", "crashed"
  client,           \* what the top-level script has done with the client
  roleCache,        \* guild.roles.cache, per guild: the cached role ids
  memberRoles,      \* the role set of every member
  hs,               \* the handler invocations, in order of delivery
  events            \* per invocation: what the client library supplied to it

vars == <<env, TOKEN, TARGET_GUILD_ID, AUTO_ROLE_ID, phase, client,
          roleCache, memberRoles, hs, events>>

\* ---------------------------------------------------------- configuration
\* process.env.X ?? d : the default only when X is undefined.
OrDefaultNullish(v, d) == IF v = Unset THEN d ELSE v

\* process.env.X || d : the default when X is undefined or the empty string.
OrDefault(v, d) == IF v = Unset \/ v = "" THEN d ELSE v

\* !TOKEN, with the check written as TOKEN === undefined.
FalsyUndefinedOnly(v) == v = Unset

\* !TOKEN
Falsy(v) == v = Unset \/ v = ""

NoClient == [constructed |-> FALSE, readyHandler |-> FALSE,
             joinHandler |-> FALSE, loginCalled |-> FALSE]

Init ==
  /\ env \in Envs
  /\ TOKEN = env.DISCORD_TOKEN
  /\ TARGET_GUILD_ID = OrDefault(env.TARGET_GUILD_ID, DefaultGuildId)
  /\ AUTO_ROLE_ID = OrDefault(env.AUTO_ROLE_ID, DefaultRoleId)
  /\ phase = "start"
  /\ client = NoClient
  /\ roleCache = [g \in GuildIds |-> {}]
  /\ memberRoles = InitialRoles
  /\ hs = <<>>
  /\ events = <<>>

\* Lines 8-49: the top-level script.
Startup ==
  /\ phase = "start"
  /\ IF Falsy(TOKEN)
       THEN /\ phase' = "exited"
            /\ client' = client
       ELSE /\ phase' = "login"
            /\ client' = [constructed |-> TRUE, readyHandler |-> TRUE,
                          joinHandler |-> TRUE, loginCalled |-> TRUE]
  /\ UNCHANGED <<env, TOKEN, TARGET_GUILD_ID, AUTO_ROLE_ID, roleCache, memberRoles, hs, events>>

\* client.login(TOKEN) settles: the ClientReady handler runs, or the
\* rejection is unhandled and ends the process.
LoginSettles ==
  /\ phase = "login"
  /\ client.loginCalled
  /\ phase' \in {"ready", "crashed"}
  /\ UNCHANGED <<env, TOKEN, TARGET_GUILD_ID, AUTO_ROLE_ID, client, roleCache, memberRoles, hs, events>>

\* The client library keeps the guilds' role caches up to date.
RoleCacheSet ==
  /\ phase = "ready"
  /\ \E g \in GuildIds : \E r \in GuildRoles(g) :
       /\ r \notin roleCache[g]
       /\ roleCache' = [roleCache EXCEPT ![g] = @ \cup {r}]
  /\ UNCHANGED <<env, TOKEN, TARGET_GUILD_ID, AUTO_ROLE_ID, phase, client, memberRoles, hs, events>>

RoleCacheDelete ==
  /\ phase = "ready"
  /\ \E g \in GuildIds : \E r \in roleCache[g] :
       roleCache' = [roleCache EXCEPT ![g] = @ \ {r}]
  /\ UNCHANGED <<env, TOKEN, TARGET_GUILD_ID, AUTO_ROLE_ID, phase, client, memberRoles, hs, events>>

\* ------------------------------------------------------------ the handler
\* One invocation of the handler: its locals, its position and what it did.
NewFrame(member) ==
  [ member |-> member,
    pc |-> "run",            \* "run", "fetch", "add", "done"
    outcome |-> "pending",
    role |-> NoRole,          \* const role
    raised |-> FALSE,         \* the promise the handler returned rejected
    fetchCalls |-> <<>>,      \* guild.roles.fetch calls issued
    addCalls |-> <<>>,        \* member.roles.add calls issued
    logs |-> <<>> ]           \* console output

\* member?.guild?.id
MemberGuildId(member) ==
  IF member.id = Undefined THEN Undefined
  ELSE IF member.guild = Undefined THEN Undefined
  ELSE member.guild

\* The guild guard with the comparison inverted.
WrongGuildInverted(member) == MemberGuildId(member) = TARGET_GUILD_ID

\* The guild guard applied only when the member has a guild reference.
WrongGuildDefinedOnly(member) ==
  MemberGuildId(member) # Undefined /\ MemberGuildId(member) # TARGET_GUILD_ID

\* member?.guild?.id !== TARGET_GUILD_ID
WrongGuild(member) == MemberGuildId(member) # TARGET_GUILD_ID

\* The membership check left out.
HasRoleNever(member) == FALSE

\* The membership check asking for any role instead of the target role.
HasRoleAny(member) == member.roles # {}

\* member.roles.cache.has(AUTO_ROLE_ID)
HasRole(member) == AUTO_ROLE_ID \in member.roles

\* The cache lookup taking whatever role is cached.
CacheGetAny(cache, r) == IF cache # {} THEN Role(CHOOSE x \in cache : TRUE) ELSE NoRole

\* The cache never consulted.
CacheGetMiss(cache, r) == NoRole

\* member.guild.roles.cache.get(AUTO_ROLE_ID)
CacheGet(cache, r) == IF r \in cache THEN Role(r) ELSE NoRole

\* The fetch promise without its .catch.
CatchNullMissing(res) == res

\* .catch(() => null) on the fetch promise
CatchNull(res) == IF res.ok THEN res ELSE Fulfilled(NoRole)

\* The add-role call placed after the try block.
TryCoversNoAdd(stmt) == stmt \in {"guard", "hasRole", "resolve", "warn"}

\* The statements the try block encloses (lines 24-43).
TryCovers(stmt) == stmt \in {"guard", "hasRole", "resolve", "warn", "add", "log"}

Finish(f, outcome) == [f EXCEPT !.pc = "done", !.outcome = outcome]

ErrorLog(error) ==
  [level |-> "error", msg |-> "Failed to assign auto-role:", a |-> error, b |-> ""]
WarnLog(roleId, guildName) ==
  [level |-> "warn", msg |-> "Role not found in guild", a |-> roleId, b |-> guildName]
SuccessLog(roleName, tag) ==
  [level |-> "log", msg |-> "Assigned role", a |-> roleName, b |-> tag]

\* An exception thrown at a statement: caught and logged (lines 44-46), or
\* rejecting the promise the handler returned.
Throw(f, stmt, error) ==
  IF TryCovers(stmt)
    THEN Finish([f EXCEPT !.logs = Append(@, ErrorLog(error))], "failed")
    ELSE Finish([f EXCEPT !.raised = TRUE], "raised")

AuditReason == "Auto-role assignment on member join"

\* The add-role call without the audit reason.
AddCallNoReason(member, role) == [member |-> member.id, role |-> role, reason |-> Undefined]

\* The add-role call made on a fixed member instead of the joining one.
AddCallFixedMember(member, role) == [member |-> "alice", role |-> role, reason |-> AuditReason]

AddCall(member, role) == [member |-> member.id, role |-> role, reason |-> AuditReason]
FetchCall(member) == [guild |-> member.guild, id |-> AUTO_ROLE_ID]

\* The add-role call not awaited: the success log is written when the call
\* is issued.
AfterResolveLogsEarly(f, role) ==
  IF role = NoRole
    THEN Finish([f EXCEPT !.role = role,
                          !.logs = Append(@, WarnLog(AUTO_ROLE_ID, GuildName(f.member.guild)))],
                "notFound")
    ELSE [f EXCEPT !.role = role, !.pc = "add",
                   !.addCalls = Append(@, AddCall(f.member, role)),
                   !.logs = Append(@, SuccessLog(role.name, UserTag(f.member.id)))]

\* The return after the warning left out: the add-role call is made with
\* no role and throws.
AfterResolveNoReturn(f, role) ==
  IF role = NoRole
    THEN Throw([f EXCEPT !.role = role,
                         !.logs = Append(@, WarnLog(AUTO_ROLE_ID, GuildName(f.member.guild)))],
               "add", "TypeError")
    ELSE [f EXCEPT !.role = role, !.pc = "add",
                   !.addCalls = Append(@, AddCall(f.member, role))]

\* Lines 37-42: after the role has been resolved.
AfterResolve(f, role) ==
  IF role = NoRole
    THEN Finish([f EXCEPT !.role = role,
                          !.logs = Append(@, WarnLog(AUTO_ROLE_ID, GuildName(f.member.guild)))],
                "notFound")
    ELSE [f EXCEPT !.role = role, !.pc = "add",
                   !.addCalls = Append(@, AddCall(f.member, role))]

\* Lines 24-35, up to the first await; cache is the role cache of the
\* member's guild.
Enter(member, cache) ==
  LET f == NewFrame(member) IN
  IF WrongGuild(member) THEN Finish(f, "wrongGuild")
  ELSE IF HasRole(member) THEN Finish(f, "hasRole")
  ELSE LET cached == CacheGet(cache, AUTO_ROLE_ID) IN
       IF cached # NoRole
         THEN AfterResolve(f, cached)
         ELSE [f EXCEPT !.pc = "fetch", !.fetchCalls = Append(@, FetchCall(member))]

\* Line 35 resumed: the fetch has settled.
ResumeFetch(f, res) ==
  LET settled == CatchNull(res)
  IN IF settled.ok THEN AfterResolve(f, settled.value)
                   ELSE Throw(f, "resolve", settled.error)

\* A failed add-role call tried once more.
ResumeAddRetry(f, res) ==
  IF res.ok
    THEN Finish([f EXCEPT !.logs = Append(@, SuccessLog(f.role.name, UserTag(f.member.id)))],
                "assigned")
    ELSE IF Len(f.addCalls) < 2
      THEN [f EXCEPT !.addCalls = Append(@, AddCall(f.member, f.role))]
      ELSE Throw(f, "add", res.error)

\* Lines 42-43 resumed: the add has settled.
ResumeAdd(f, res) ==
  IF res.ok
    THEN Finish([f EXCEPT !.logs = Append(@, SuccessLog(f.role.name, UserTag(f.member.id)))],
                "assigned")
    ELSE Throw(f, "add", res.error)

ErrorOutcomes == {"notFound", "failed", "raised"}
InFlight(f) == f.pc \in {"fetch", "add"}

\* The handler's locals kept in module-level variables, which the latest
\* invocation overwrites.
SharedFrame(i) == hs[Len(hs)]

\* The locals of invocation i (member, role): one closure per invocation.
Frame(i) == hs[i]

\* The cache of the guild the member value refers to.
CacheOf(member) ==
  IF member.guild \in GuildIds THEN roleCache[member.guild] ELSE {}

\* The member values that can be delivered now.
Deliverable ==
  {MemberValue(m, memberRoles[m]) : m \in Members}
    \cup {NoGuildMember("alice"), NullMember}

\* Every handled error ending the process.
PhaseAfterFatal(f) == IF f.outcome \in ErrorOutcomes THEN "crashed" ELSE phase

\* A rejected handler promise is an unhandled rejection, which ends the
\* process; anything else leaves it running.
PhaseAfter(f) == IF f.raised THEN "crashed" ELSE phase

\* What the client library supplied to an invocation, and how it ran
\* relative to the others.
NewEvent(member, cache) ==
  [ member |-> member,
    cache |-> cache,          \* the guild role cache at delivery
    fetchResult |-> Pending,  \* what its fetch settled to
    addResult |-> Pending,    \* what its add settled to
    afterError |-> \E j \in 1..Len(hs) : hs[j].outcome \in ErrorOutcomes,
    overtaken |-> FALSE ]     \* a later invocation finished while it waited

\* Invocation i finished: the earlier ones still waiting were overtaken.
Overtake(ev, s, i) ==
  [j \in 1..Len(ev) |->
     IF j < i /\ InFlight(s[j]) /\ ~InFlight(s[i])
       THEN [ev[j] EXCEPT !.overtaken = TRUE] ELSE ev[j]]

\* Line 23: a join notification arrives and the handler is invoked.
Deliver ==
  /\ phase = "ready"
  /\ client.joinHandler
  /\ Len(hs) < MaxEvents
  /\ \E member \in Deliverable :
       LET f == Enter(member, CacheOf(member))
       IN /\ hs' = Append(hs, f)
          /\ events' = Append(events, NewEvent(member, CacheOf(member)))
          /\ phase' = PhaseAfter(f)
  /\ UNCHANGED <<env, TOKEN, TARGET_GUILD_ID, AUTO_ROLE_ID, client, roleCache, memberRoles>>

\* The fetch of invocation i settles and the invocation is resumed.
FetchSettles ==
  /\ phase = "ready"
  /\ \E i \in 1..Len(hs) :
       /\ hs[i].pc = "fetch"
       /\ Frame(i).pc = "fetch"
       /\ \E res \in FetchResults(events[i].member.guild, AUTO_ROLE_ID) :
            LET f == ResumeFetch(Frame(i), res)
                s == [hs EXCEPT ![i] = f]
            IN /\ hs' = s
               /\ events' = Overtake([events EXCEPT ![i].fetchResult = res], s, i)
               /\ phase' = PhaseAfter(f)
  /\ UNCHANGED <<env, TOKEN, TARGET_GUILD_ID, AUTO_ROLE_ID, client, roleCache, memberRoles>>

\* The add of invocation i settles and the invocation is resumed; a
\* successful add has put the role on the member.
AddSettles ==
  /\ phase = "ready"
  /\ \E i \in 1..Len(hs) :
       /\ hs[i].pc = "add"
       /\ Frame(i).pc = "add"
       /\ \E res \in AddResults :
            LET f == ResumeAdd(Frame(i), res)
                s == [hs EXCEPT ![i] = f]
                call == hs[i].addCalls[Len(hs[i].addCalls)]
            IN /\ hs' = s
               /\ events' = Overtake([events EXCEPT ![i].addResult = res], s, i)
               /\ phase' = PhaseAfter(f)
               /\ memberRoles' =
                    IF res.ok
                      THEN [memberRoles EXCEPT ![call.member] = @ \cup {call.role.id}]
                      ELSE memberRoles
  /\ UNCHANGED <<env, TOKEN, TARGET_GUILD_ID, AUTO_ROLE_ID, client, roleCache>>

Next ==
  \/ Startup
  \/ LoginSettles
  \/ RoleCacheSet
  \/ RoleCacheDelete
  \/ Deliver
  \/ FetchSettles
  \/ AddSettles

Spec == Init /\ [][Next]_vars

TypeOK ==
  /\ env \in Envs
  /\ phase \in {"start", "exited", "login", "ready", "crashed"}
  /\ Len(hs) <= MaxEvents
  /\ Len(events) = Len(hs)
  /\ \A g \in GuildIds : roleCache[g] \subseteq GuildRoles(g)
  /\ \A m \in Members : InitialRoles[m] \subseteq memberRoles[m]

\* ------------------------------------------------------------ properties
\* What the claims speak about, read off the delivered events and not off
\* the handler's own tests.
Invocations == 1..Len(hs)
Done(i) == hs[i].pc = "done"
InTarget(i) == MemberGuildId(events[i].member) = TARGET_GUILD_ID
Held(i) == AUTO_ROLE_ID \in events[i].member.roles
PassedGuards(i) == InTarget(i) /\ ~Held(i)
CacheHit(i) == AUTO_ROLE_ID \in events[i].cache
FetchSettled(i) == events[i].fetchResult # Pending
FetchGaveRole(i) == events[i].fetchResult.ok /\ events[i].fetchResult.value # NoRole
AddSettled(i) == events[i].addResult # Pending
AddFailed(i) == AddSettled(i) /\ ~events[i].addResult.ok
Resolved(i) == CacheHit(i) \/ FetchGaveRole(i)
Levels(i) == [k \in 1..Len(hs[i].logs) |-> hs[i].logs[k].level]

\* C1: a join event whose guild id differs from the target guild id ends at
\* once with no add-role call, no fetch call and no log output, whatever the
\* member's roles and the guild's role cache are.
C1_WrongGuildNoEffect ==
  \A i \in Invocations :
    ~InTarget(i) =>
      /\ Done(i) /\ ~hs[i].raised
      /\ hs[i].addCalls = <<>>
      /\ hs[i].fetchCalls = <<>>
      /\ hs[i].logs = <<>>

\* A member of a non-target guild that holds the configured role, whose
\* guild has that role cached, has been handled.
C1_Witness ==
  \E i \in Invocations :
    /\ events[i].member.guild \in GuildIds
    /\ ~InTarget(i)
    /\ Held(i)
    /\ CacheHit(i)
    /\ Done(i)

\* C2: a join event in the target guild whose member already holds the
\* target role ends at once with no add-role call and no fetch call, whether
\* or not the role is cached.
C2_AlreadyHeldNoCalls ==
  \A i \in Invocations :
    (InTarget(i) /\ Held(i)) =>
      /\ Done(i)
      /\ hs[i].addCalls = <<>>
      /\ hs[i].fetchCalls = <<>>

\* Two such events have been handled, one with the role cached and one
\* without.
C2_Witness ==
  \E i, j \in Invocations :
    /\ InTarget(i) /\ Held(i) /\ CacheHit(i) /\ Done(i)
    /\ InTarget(j) /\ Held(j) /\ ~CacheHit(j) /\ Done(j)

\* C3 as stated: a handled join event in the target guild whose member does
\* not hold the target role has issued exactly one add-role call, for the
\* configured role id.
C3_Original ==
  \A i \in Invocations :
    (Done(i) /\ PassedGuards(i)) =>
      /\ Len(hs[i].addCalls) = 1
      /\ hs[i].addCalls[1].role.id = AUTO_ROLE_ID

\* C3 amended: a handled join event in the target guild whose member does
\* not hold the target role has issued exactly one add-role call, for the
\* configured role id, when the role was resolved (cached or fetched), and
\* none when it was not.
C3_OneAddWhenResolved ==
  \A i \in Invocations :
    (Done(i) /\ PassedGuards(i)) =>
      IF Resolved(i)
        THEN /\ Len(hs[i].addCalls) = 1
             /\ hs[i].addCalls[1].role.id = AUTO_ROLE_ID
        ELSE hs[i].addCalls = <<>>

\* An event without the role was handled to the end through a fetch that
\* returned the role.
C3_Witness ==
  \E i \in Invocations :
    /\ Done(i) /\ PassedGuards(i)
    /\ FetchGaveRole(i)
    /\ AddSettled(i)
    /\ Len(hs[i].addCalls) = 1

\* C4 as stated: after a join event for the target guild has been handled
\* the member holds the target role unless the add-role call was issued and
\* failed; a failure is logged and the call is not issued again.
C4_Original ==
  \A i \in Invocations :
    (Done(i) /\ InTarget(i)) =>
      /\ \/ AUTO_ROLE_ID \in memberRoles[events[i].member.id]
         \/ (hs[i].addCalls # <<>> /\ AddFailed(i))
      /\ AddFailed(i) => (Len(hs[i].addCalls) = 1 /\ Levels(i) = <<"error">>)

\* C4 amended: after a join event for the target guild has been handled the
\* member holds the target role unless the role could not be resolved (no
\* add-role call, a warning logged) or the add-role call was issued and
\* failed; a failure is logged and the call is not issued again.
C4_RolePresentUnlessUnresolvedOrFailed ==
  \A i \in Invocations :
    (Done(i) /\ InTarget(i)) =>
      /\ \/ AUTO_ROLE_ID \in memberRoles[events[i].member.id]
         \/ (~Held(i) /\ ~Resolved(i) /\ hs[i].addCalls = <<>> /\ Levels(i) = <<"warn">>)
         \/ (hs[i].addCalls # <<>> /\ AddFailed(i))
      /\ AddFailed(i) => (Len(hs[i].addCalls) = 1 /\ Levels(i) = <<"error">>)

\* An add-role call succeeded for a member that did not hold the role, and
\* the member holds it now.
C4_Witness ==
  \E i \in Invocations :
    /\ Done(i) /\ PassedGuards(i)
    /\ AddSettled(i) /\ events[i].addResult.ok
    /\ AUTO_ROLE_ID \in memberRoles[events[i].member.id]

\* C5: when the role is not cached and the fetch returns nothing or fails,
\* the handler ends without raising and without an add-role call, and its
\* only output is one warning naming the role id and the guild name; a
\* failed fetch never reaches the error log.
C5_RoleNotFoundWarns ==
  \A i \in Invocations :
    (FetchSettled(i) /\ ~FetchGaveRole(i)) =>
      /\ Done(i) /\ ~hs[i].raised
      /\ hs[i].addCalls = <<>>
      /\ hs[i].logs = <<WarnLog(AUTO_ROLE_ID, GuildName(events[i].member.guild))>>

\* Both ways of finding no role have happened: a fetch that failed and a
\* fetch that returned nothing.
C5_Witness ==
  \E i, j \in Invocations :
    /\ FetchSettled(i) /\ ~events[i].fetchResult.ok /\ Done(i)
    /\ FetchSettled(j) /\ events[j].fetchResult = Fulfilled(NoRole) /\ Done(j)

\* C6: when the add-role call fails, for whatever reason, the handler ends
\* without raising, its only output is the error log of that failure (no
\* success message), and neither the add-role call nor the fetch is issued
\* again.
C6_AddFailureLoggedNoRetry ==
  \A i \in Invocations :
    AddFailed(i) =>
      /\ Done(i) /\ ~hs[i].raised
      /\ phase # "crashed"
      /\ hs[i].logs = <<ErrorLog(events[i].addResult.error)>>
      /\ Len(hs[i].addCalls) = 1
      /\ Len(hs[i].fetchCalls) = (IF CacheHit(i) THEN 0 ELSE 1)

\* An add-role call failed after a fetch, and another failed after a cache
\* hit, with different errors.
C6_Witness ==
  \E i, j \in Invocations :
    /\ AddFailed(i) /\ ~CacheHit(i) /\ Done(i)
    /\ AddFailed(j) /\ CacheHit(j) /\ Done(j)
    /\ events[i].addResult.error # events[j].addResult.error

\* C7: with the token unset or empty the process ends at startup before the
\* client exists: no handler registered, no login, no join event handled;
\* with a token the startup goes on to the login.
C7_NoTokenNoStart ==
  /\ (env.DISCORD_TOKEN \in {Unset, ""}) =>
       /\ phase \in {"start", "exited"}
       /\ client = NoClient
       /\ hs = <<>>
  /\ (env.DISCORD_TOKEN \notin {Unset, ""} /\ phase # "start") =>
       /\ phase # "exited"
       /\ client.constructed /\ client.joinHandler /\ client.loginCalled

\* The process was started with an empty token and has ended.
C7_Witness == env.DISCORD_TOKEN = "" /\ phase = "exited"

\* What an invocation does when it runs alone from delivery to its end,
\* given the member value, the cache and the results of its own calls.
SerialRun(e) ==
  LET f0 == Enter(e.member, e.cache)
      f1 == IF f0.pc = "fetch" /\ e.fetchResult # Pending
              THEN ResumeFetch(f0, e.fetchResult) ELSE f0
      f2 == IF f1.pc = "add" /\ e.addResult # Pending
              THEN ResumeAdd(f1, e.addResult) ELSE f1
  IN f2

\* C8: however the invocations in flight are interleaved, each one issues
\* the calls and produces the output it would when run alone on its member
\* value, the cache it saw and the results of its own calls, and issues at
\* most one add-role call.
C8_InterleavingIndependent ==
  \A i \in Invocations :
    /\ hs[i] = SerialRun(events[i])
    /\ Len(hs[i].addCalls) <= 1

\* An invocation for one member was suspended, a later one for another
\* member finished first with a different outcome, and then the earlier one
\* finished.
C8_Witness ==
  \E i, j \in Invocations :
    /\ i < j
    /\ events[i].overtaken
    /\ Done(i) /\ Done(j)
    /\ events[i].member.id # events[j].member.id
    /\ hs[i].outcome = "assigned"
    /\ hs[j].outcome = "failed"

\* C9: an invocation delivered after an earlier one ended in a recoverable
\* error (role not found, add failure) runs as it would as the first event,
\* never raises, and the process is still running and takes the next join
\* notification.
C9_ErrorsLeaveNoState ==
  /\ \A i \in Invocations :
       events[i].afterError =>
         /\ hs[i] = SerialRun(events[i])
         /\ ~hs[i].raised
  /\ (\E i \in Invocations : hs[i].outcome \in ErrorOutcomes) =>
       /\ phase = "ready"
       /\ Len(hs) < MaxEvents => ENABLED Deliver

\* After a failed add-role call a later member was given the role.
C9_Witness ==
  \E i, j \in Invocations :
    /\ i < j
    /\ hs[i].outcome = "failed"
    /\ events[j].afterError
    /\ hs[j].outcome = "assigned"

\* C10: the fetch is issued exactly when the event passed both guards and
\* the target role is not in the guild's role cache, at most once; on a
\* cache hit the add-role call carries the cached role and no fetch is made.
C10_FetchOnlyOnCacheMiss ==
  \A i \in Invocations :
    /\ Len(hs[i].fetchCalls) <= 1
    /\ (hs[i].fetchCalls # <<>>) <=> (PassedGuards(i) /\ ~CacheHit(i))
    /\ hs[i].fetchCalls # <<>> =>
         hs[i].fetchCalls[1] = [guild |-> TARGET_GUILD_ID, id |-> AUTO_ROLE_ID]
    /\ (PassedGuards(i) /\ CacheHit(i)) =>
         /\ hs[i].fetchCalls = <<>>
         /\ Len(hs[i].addCalls) = 1
         /\ hs[i].addCalls[1] = [member |-> events[i].member.id,
                                 role |-> Role(AUTO_ROLE_ID),
                                 reason |-> AuditReason]

\* One event was served from the cache and another had to fetch.
C10_Witness ==
  \E i, j \in Invocations :
    /\ PassedGuards(i) /\ CacheHit(i) /\ Done(i)
    /\ PassedGuards(j) /\ ~CacheHit(j) /\ Done(j) /\ FetchGaveRole(j)

\* C11: an invocation that passed both guards ends with exactly one log
\* entry: the success log exactly when the add-role call succeeded, the
\* error log exactly when an exception was thrown in the handler (the add
\* failed), the warning exactly when the role was not resolved; no success
\* log exists before the add-role call has completed.
C11_OneLogPerOutcome ==
  \A i \in Invocations :
    /\ (Done(i) /\ PassedGuards(i)) =>
         /\ Len(hs[i].logs) = 1
         /\ (Levels(i) = <<"log">>) <=> (AddSettled(i) /\ events[i].addResult.ok)
         /\ (Levels(i) = <<"error">>) <=> AddFailed(i)
         /\ (Levels(i) = <<"warn">>) <=> ~Resolved(i)
         /\ Levels(i) = <<"log">> =>
              hs[i].logs[1] = SuccessLog(RoleName(AUTO_ROLE_ID), UserTag(events[i].member.id))
    /\ ~Done(i) => hs[i].logs = <<>>
    /\ (\E k \in 1..Len(hs[i].logs) : hs[i].logs[k].level = "log") =>
         (AddSettled(i) /\ events[i].addResult.ok)

\* One invocation has logged a success while another, past the guards, is
\* still waiting for its add-role call and has logged nothing.
C11_Witness ==
  \E i, j \in Invocations :
    /\ Done(i) /\ PassedGuards(i) /\ Levels(i) = <<"log">>
    /\ PassedGuards(j) /\ hs[j].pc = "add" /\ hs[j].logs = <<>>

\* The role an invocation resolved: the cached one, else the fetched one.
ResolvedRole(i) ==
  IF CacheHit(i) THEN Role(AUTO_ROLE_ID) ELSE events[i].fetchResult.value

\* C12: the steps come in the order guild guard, membership check, role
\* resolution, add-role call: a fetch is issued only past both guards, an
\* add-role call only past both guards and once a role has been resolved
\* (after the fetch settled, on a cache miss), and the call carries that
\* role and the audit reason.
C12_AddAfterGuardsAndResolution ==
  \A i \in Invocations :
    /\ hs[i].fetchCalls # <<>> => PassedGuards(i)
    /\ hs[i].addCalls # <<>> =>
         /\ PassedGuards(i)
         /\ Resolved(i)
         /\ ~CacheHit(i) => (hs[i].fetchCalls # <<>> /\ FetchSettled(i))
         /\ ResolvedRole(i) # NoRole
         /\ hs[i].addCalls[1] = [member |-> events[i].member.id,
                                 role |-> ResolvedRole(i),
                                 reason |-> "Auto-role assignment on member join"]

\* An add-role call was issued with a role that had to be fetched.
C12_Witness ==
  \E i \in Invocations :
    /\ hs[i].addCalls # <<>>
    /\ ~CacheHit(i)
    /\ FetchGaveRole(i)

\* The two ids as the environment determines them: the variable's value, or
\* the built-in default when it is unset or empty.
ConfiguredGuild ==
  IF env.TARGET_GUILD_ID \in {Unset, ""} THEN "1443680950952394784"
  ELSE env.TARGET_GUILD_ID
ConfiguredRole ==
  IF env.AUTO_ROLE_ID \in {Unset, ""} THEN "1444126866746245253"
  ELSE env.AUTO_ROLE_ID

\* C13: the target guild id and the target role id are, at every moment and
\* after every handler invocation whatever its outcome, the values fixed at
\* startup (the environment's, or the default for an unset or empty
\* variable), and every guard decision, fetch and add-role call uses them.
C13_ConfigurationFixed ==
  /\ TARGET_GUILD_ID = ConfiguredGuild
  /\ AUTO_ROLE_ID = ConfiguredRole
  /\ \A i \in Invocations :
       /\ (hs[i].outcome = "wrongGuild") <=>
            (MemberGuildId(events[i].member) # ConfiguredGuild)
       /\ (hs[i].outcome = "hasRole") <=>
            /\ MemberGuildId(events[i].member) = ConfiguredGuild
            /\ ConfiguredRole \in events[i].member.roles
       /\ \A k \in 1..Len(hs[i].fetchCalls) :
            hs[i].fetchCalls[k] = [guild |-> ConfiguredGuild, id |-> ConfiguredRole]
       /\ \A k \in 1..Len(hs[i].addCalls) :
            hs[i].addCalls[k].role.id = ConfiguredRole

\* Started with one variable unset and the other empty, the process has
\* handled one event to a failed add-role call and then another to a
\* successful one after a fetch.
C13_Witness ==
  /\ env.TARGET_GUILD_ID = Unset
  /\ env.AUTO_ROLE_ID = ""
  /\ \E i, j \in Invocations :
       /\ i < j
       /\ hs[i].outcome = "failed"
       /\ hs[j].outcome = "assigned" /\ hs[j].fetchCalls # <<>>

\* What the handler has requested and what has become of the members' role
\* sets: only add-role calls for the target role on the joining member.
OnlyTargetRoleAdded ==
  /\ \A i \in Invocations :
       /\ hs[i].member = events[i].member
       /\ \A k \in 1..Len(hs[i].addCalls) :
            /\ hs[i].addCalls[k].member = events[i].member.id
            /\ hs[i].addCalls[k].role = Role(AUTO_ROLE_ID)
  /\ \A m \in Members :
       /\ InitialRoles[m] \subseteq memberRoles[m]
       /\ memberRoles[m] \ InitialRoles[m] \subseteq {AUTO_ROLE_ID}
       /\ memberRoles[m] # InitialRoles[m] =>
            \E i \in Invocations :
              /\ events[i].member.id = m
              /\ PassedGuards(i)
              /\ AddSettled(i) /\ events[i].addResult.ok

\* A step of the handler leaves the guilds' role caches and the delivered
\* member values alone, and changes a role set only by adding the target
\* role to the member of the invocation whose add-role call succeeded.
HandlerStepFrame ==
  (hs' # hs) =>
    /\ roleCache' = roleCache
    /\ \A i \in Invocations : events'[i].member = events[i].member
    /\ \A m \in Members :
         memberRoles'[m] # memberRoles[m] =>
           /\ memberRoles'[m] = memberRoles[m] \cup {AUTO_ROLE_ID}
           /\ \E i \in Invocations :
                /\ events[i].member.id = m
                /\ hs[i].pc = "add" /\ hs'[i].outcome = "assigned"

\* C14: over any sequence of join events the only mutation the handler
\* requests is adding the configured role to the member of the event it is
\* handling: no role is removed, no other role or member is touched, and the
\* member, guild and role objects are not changed by the handler.
C14_OnlyAddsTargetRoleToJoiner ==
  []OnlyTargetRoleAdded /\ [][HandlerStepFrame]_vars

\* Two events for different members have been handled; one member was given
\* the role, the other member's add-role call failed and its role set is as
\* it was.
C14_Witness ==
  \E i, j \in Invocations :
    /\ events[i].member.id # events[j].member.id
    /\ hs[i].outcome = "assigned"
    /\ hs[j].outcome = "failed"
    /\ memberRoles[events[i].member.id] = {AUTO_ROLE_ID}
    /\ memberRoles[events[j].member.id] = {}

\* The add-role calls issued for member m, and the join notifications
\* delivered for m in the target guild with a snapshot without the role.
AddCallsFor(m) ==
  {c \in {<<i, k>> : i \in Invocations, k \in 1..2} :
     /\ c[2] <= Len(hs[c[1]].addCalls)
     /\ hs[c[1]].addCalls[c[2]].member = m}
NotificationsFor(m) ==
  {i \in Invocations : events[i].member.id = m /\ PassedGuards(i)}

\* C15: the has-role guard reads the snapshot delivered with the event, so
\* notifications for one member handled concurrently can each issue an
\* add-role call; the add-role calls for a member are at most as many as
\* the notifications delivered for it with a snapshot without the role, one
\* per notification.
C15_AddsBoundedByNotifications ==
  /\ \A m \in Members :
       Cardinality(AddCallsFor(m)) <= Cardinality(NotificationsFor(m))
  /\ \A i \in Invocations :
       /\ Len(hs[i].addCalls) <= 1
       /\ (PassedGuards(i) /\ Resolved(i)) => Len(hs[i].addCalls) = 1

\* Two notifications for the same member, both without the role in their
\* snapshot, are waiting for their add-role calls at the same time.
C15_Witness ==
  \E i, j \in Invocations :
    /\ i < j
    /\ events[i].member.id = events[j].member.id
    /\ PassedGuards(i) /\ PassedGuards(j)
    /\ hs[i].pc = "add" /\ hs[j].pc = "add"
    /\ Cardinality(AddCallsFor(events[i].member.id)) = 2

\* The program under the assumption that every external call settles: a
\* pending fetch and a pending add-role call are eventually answered.
FairSpec == Spec /\ WF_vars(FetchSettles) /\ WF_vars(AddSettles)

\* The five ways an invocation ends, told by what it was given and what it
\* did.
FiveOutcomes == {"wrongGuild", "hasRole", "notFound", "assigned", "failed"}
Reached(i, o) ==
  CASE o = "wrongGuild" ->
         ~InTarget(i) /\ hs[i].logs = <<>> /\ hs[i].addCalls = <<>>
    [] o = "hasRole" ->
         InTarget(i) /\ Held(i) /\ hs[i].logs = <<>> /\ hs[i].addCalls = <<>>
    [] o = "notFound" ->
         PassedGuards(i) /\ Levels(i) = <<"warn">> /\ hs[i].addCalls = <<>>
    [] o = "assigned" ->
         PassedGuards(i) /\ Levels(i) = <<"log">> /\ Len(hs[i].addCalls) = 1
    [] o = "failed" ->
         PassedGuards(i) /\ Levels(i) = <<"error">>
OutcomesReached(i) == {o \in FiveOutcomes : Reached(i, o)}

\* C16: when every external call settles, every invocation ends (again and
\* again all delivered invocations have ended, and an ended one stays as it
\* is), and an ended invocation has reached exactly one of the five
\* outcomes: wrong guild, role already held, role not found, role assigned,
\* failure logged.
C16_TerminatesInOneOutcome ==
  /\ []<>(\A i \in Invocations : Done(i))
  /\ [](\A i \in Invocations :
          Done(i) => (~hs[i].raised /\ OutcomesReached(i) = {hs[i].outcome}))
  /\ [][\A i \in Invocations : Done(i) => hs'[i] = hs[i]]_vars

\* An invocation went through both awaits to an assigned role and another
\* ended at the fetch with no role found.
C16_Witness ==
  \E i, j \in Invocations :
    /\ Done(i) /\ hs[i].outcome = "assigned" /\ FetchGaveRole(i)
    /\ Done(j) /\ hs[j].outcome = "notFound"

\* C17: a join notification whose member value is missing, or has no guild
\* reference, is handled like one for a non-target guild: the handler
\* returns at the guard with no fetch, no add-role call, no log and no
\* exception.
C17_MissingMemberOrGuildSkipped ==
  \A i \in Invocations :
    (events[i].member.id = Undefined \/ events[i].member.guild = Undefined) =>
      /\ Done(i)
      /\ hs[i].outcome = "wrongGuild"
      /\ ~hs[i].raised
      /\ hs[i].fetchCalls = <<>>
      /\ hs[i].addCalls = <<>>
      /\ hs[i].logs = <<>>
      /\ phase = "ready"

\* A notification without member and one whose member has no guild have
\* both been handled.
C17_Witness ==
  \E i, j \in Invocations :
    /\ events[i].member = NullMember /\ Done(i)
    /\ events[j].member.id # Undefined /\ events[j].member.guild = Undefined /\ Done(j)
====
